---- MODULE Spec2Model ----
(***************************************************************************)
(* Model of the SampleGraphRAG indexing package:                           *)
(*   - semantic_text_splitting.py : LlamaIndexTextSplitter.split_by_topics *)
(*     and the demonstration routine process_insurance_text;               *)
(*   - indexing_pipeline.py       : the batch pipeline run();              *)
(*   - app.py / app2.py           : the two Streamlit dashboards.          *)
(*                                                                         *)
(* Text is modelled as a sequence of sentences, a sentence as a sequence   *)
(* of words (punctuation is a word of its own), and one word counts as one *)
(* token.  Substring tests on characters become contiguous-subsequence     *)
(* tests on words.                                                         *)
(***************************************************************************)
EXTENDS Integers, Sequences, FiniteSets, TLC

VARIABLES
    \* ---- semantic_text_splitting.py ----
    spc,            \* position in split_by_topics: "idle","split","loop","format","done"
    text,           \* the text argument (sequence of sentences)
    chunk_size,     \* LlamaIndexTextSplitter(chunk_size=...)
    chunk_overlap,  \* LlamaIndexTextSplitter(chunk_overlap=...)
    base_nodes,     \* contents of base_nodes (sequence of chunk texts)
    idx,            \* number of base nodes the for-loop has processed
    current_topic,  \* local current_topic
    topics,         \* local dict topics, in insertion order: seq of [topic, chunks]
    appendedTo,     \* history: appendedTo[i] = key whose list received chunk i
    topic_chunks,   \* the returned list
    apc,            \* position in analyze_chunks: "idle","loop","done"
    achunks,        \* the chunks argument of analyze_chunks (sequence of character sequences)
    analysis,       \* local analysis (list of records), then the returned frame
    \* ---- indexing_pipeline.py ----
    ppc,            \* position in run(): "idle","construct", a stage, "done","failed"
    pStarted,       \* history: stages of this run that were called, in call order
    pCompleted,     \* history: stages of this run that returned normally
    pGraph,         \* locals entities, relationships (result of resolve)
    communityStore, \* community state persisted by CommunitySummarizer.run
    indexStore,     \* entities/relationships stored by DataIndexer.insert_data
    \* ---- app.py / app2.py ----
    variant,        \* which dashboard is deployed: "v1" (app.py) or "v2" (app2.py)
    dpc,            \* position in the current script run
    session_query,  \* st.session_state.query
    clicked,        \* index of the example button clicked for this run (0: none)
    query,          \* local query of render_main
    calls,          \* history: backend calls made by this script run
    loaded,         \* in-memory community state of self.summarizer (after load())
    genUsed,        \* evidence the Generator used in its last generate()
    response,       \* local response
    entities,       \* local entities
    summaries,      \* local summaries
    edges,          \* local edges of plot_entity_network
    rendered        \* elements rendered by this script run

splitVars == <<spc, text, chunk_size, chunk_overlap, base_nodes, idx,
               current_topic, topics, appendedTo, topic_chunks>>

analyzeVars == <<apc, achunks, analysis>>

pipeVars == <<ppc, pStarted, pCompleted, pGraph>>

storeVars == <<communityStore, indexStore>>

dashVars == <<variant, dpc, session_query, clicked, query, calls, loaded,
              genUsed, response, entities, summaries, edges, rendered>>

vars == <<splitVars, analyzeVars, pipeVars, storeVars, dashVars>>

-----------------------------------------------------------------------------
(* Bounds of the model *)

MaxSentences == 3
MaxChunks == 2
ShortLen == 2
ExtraLen == 3
MaxRetrieved == 3
MaxSummaries == 2
SmallChunkSize == 6
SmallOverlap == 2

(* Program constants *)

PreviewLen == 100
DemoChunkSize == 512
DemoChunkOverlap == 50
DefaultChunkSize == 1024
DefaultChunkOverlap == 20

-----------------------------------------------------------------------------
(* Generic helpers *)

RECURSIVE Flatten(_)
Flatten(ss) == IF ss = <<>> THEN <<>> ELSE Head(ss) \o Flatten(Tail(ss))

RECURSIVE SumLen(_)
SumLen(ss) == IF ss = <<>> THEN 0 ELSE Len(Head(ss)) + SumLen(Tail(ss))

\* Python's `needle in hay` on strings, at word granularity
Contains(hay, needle) ==
    \E i \in 1..(Len(hay) - Len(needle) + 1) :
        SubSeq(hay, i, i + Len(needle) - 1) = needle

\* str.lower(): words that hold an upper-case letter and their lower-case form
LowerTable ==
    [w \in {"AUTO", "Auto", "LIFE", "Life", "PROPERTY", "Property",
            "LIABILITY", "WORKERS", "COMPENSATION", "HEALTH",
            "INSURANCE", "Insurance", "It", "There", "This"} |->
       CASE w \in {"AUTO", "Auto"} -> "auto"
         [] w \in {"LIFE", "Life"} -> "life"
         [] w \in {"PROPERTY", "Property"} -> "property"
         [] w = "LIABILITY" -> "liability"
         [] w = "WORKERS" -> "workers"
         [] w = "COMPENSATION" -> "compensation"
         [] w = "HEALTH" -> "health"
         [] w \in {"INSURANCE", "Insurance"} -> "insurance"
         [] w = "It" -> "it"
         [] w = "There" -> "there"
         [] w = "This" -> "this"]

LowerWord(w) == IF w \in DOMAIN LowerTable THEN LowerTable[w] ELSE w

Lower(t) == [i \in 1..Len(t) |-> LowerWord(t[i])]

-----------------------------------------------------------------------------
(* semantic_text_splitting.py *)

topic_indicators ==
    <<"AUTO INSURANCE", "LIFE INSURANCE", "PROPERTY INSURANCE",
      "LIABILITY INSURANCE", "WORKERS COMPENSATION", "HEALTH INSURANCE">>

\* the words of each indicator string
IndicatorWords(ind) ==
    CASE ind = "AUTO INSURANCE"       -> <<"AUTO", "INSURANCE">>
      [] ind = "LIFE INSURANCE"       -> <<"LIFE", "INSURANCE">>
      [] ind = "PROPERTY INSURANCE"   -> <<"PROPERTY", "INSURANCE">>
      [] ind = "LIABILITY INSURANCE"  -> <<"LIABILITY", "INSURANCE">>
      [] ind = "WORKERS COMPENSATION" -> <<"WORKERS", "COMPENSATION">>
      [] ind = "HEALTH INSURANCE"     -> <<"HEALTH", "INSURANCE">>

\* `indicator.lower() in text.lower()`
IndicatorIn(ind, t) == Contains(Lower(t), Lower(IndicatorWords(ind)))

\* the inner for-loop over topic_indicators, from indicator k on
RECURSIVE ScanIndicators(_, _, _)
ScanIndicators(k, cur, t) ==
    IF k > Len(topic_indicators) THEN cur
    ELSE ScanIndicators(k + 1,
                        IF IndicatorIn(topic_indicators[k], t)
                            THEN topic_indicators[k] ELSE cur,
                        t)

\* a plausible slip: current_topic is re-initialised for every node
TopicAfterReset(cur, t) == ScanIndicators(1, "General", t)

\* current_topic after the inner loop has scanned node text t
TopicAfter(cur, t) == ScanIndicators(1, cur, t)

\* position of key k in the dict (0 when absent)
KeyIndex(d, k) ==
    IF \E i \in 1..Len(d) : d[i].topic = k
        THEN CHOOSE i \in 1..Len(d) : d[i].topic = k
        ELSE 0

\* a plausible slip: the membership test is dropped and every chunk opens a list
DictAppendAlwaysNew(d, k, t) == Append(d, [topic |-> k, chunks |-> <<t>>])

\* `if current_topic not in topics: topics[current_topic] = []` and the append
DictAppend(d, k, t) ==
    LET d1 == IF KeyIndex(d, k) = 0
                  THEN Append(d, [topic |-> k, chunks |-> <<>>])
                  ELSE d
        i  == KeyIndex(d1, k)
    IN  [d1 EXCEPT ![i].chunks = Append(@, t)]

\* " ".join(chunks)
JoinChunks(cs) == Flatten(cs)

\* the list comprehension that formats the result
FormatTopics(d) ==
    [i \in 1..Len(d) |->
        [topic |-> d[i].topic,
         content |-> JoinChunks(d[i].chunks),
         chunk_count |-> Len(d[i].chunks)]]

-----------------------------------------------------------------------------
(* SentenceSplitter (llama_index), as configured by __init__ and used by     *)
(* sentence_parser.get_nodes_from_documents: a text that fits in chunk_size *)
(* is one chunk; otherwise its sentences are merged greedily into chunks of *)
(* at most chunk_size tokens, each new chunk starting with the trailing     *)
(* sentences of the previous one that fit in chunk_overlap.                 *)

\* the trailing splits of `last` whose total length fits in `overlap`
RECURSIVE OverlapTail(_, _, _)
OverlapTail(last, acc, overlap) ==
    IF last = <<>> THEN acc
    ELSE LET s == last[Len(last)]
         IN  IF SumLen(acc) + Len(s) <= overlap
                 THEN OverlapTail(SubSeq(last, 1, Len(last) - 1), <<s>> \o acc, overlap)
                 ELSE acc

\* drop leading overlap splits until a split of length n fits
RECURSIVE MakeRoom(_, _, _)
MakeRoom(cur, n, size) ==
    IF cur # <<>> /\ SumLen(cur) + n > size THEN MakeRoom(Tail(cur), n, size) ELSE cur

RECURSIVE Merge(_, _, _, _, _, _)
Merge(splits, chunks, cur, newChunk, size, overlap) ==
    IF splits = <<>>
        THEN IF newChunk THEN chunks ELSE Append(chunks, Flatten(cur))
    ELSE LET s == Head(splits)
         IN  IF SumLen(cur) + Len(s) > size /\ ~newChunk
                 THEN Merge(splits, Append(chunks, Flatten(cur)),
                            OverlapTail(cur, <<>>, overlap), TRUE, size, overlap)
                 ELSE Merge(Tail(splits), chunks,
                            Append(MakeRoom(cur, Len(s), size), s), FALSE, size, overlap)

SentenceSplit(t, size, overlap) ==
    IF t = <<>> THEN <<>>
    ELSE IF SumLen(t) <= size THEN <<Flatten(t)>>
    ELSE Merge(t, <<>>, <<>>, TRUE, size, overlap)

-----------------------------------------------------------------------------
(* Inputs *)

\* insurance_text of process_insurance_text, sentence by sentence
SampleText ==
    << <<"AUTO", "INSURANCE", "Auto", "insurance", "protects", "against",
         "financial", "loss", "in", "the", "event", "of", "an", "accident", ".">>,
       <<"It", "is", "a", "contract", "between", "the", "policyholder", "and",
         "the", "insurance", "company", ".">>,
       <<"LIFE", "INSURANCE", "Life", "insurance", "provides", "financial",
         "protection", "to", "beneficiaries", "upon", "the", "death", "of",
         "the", "insured", ".">>,
       <<"There", "are", "two", "main", "types", ":", "term", "and", "whole",
         "life", "insurance", ".">>,
       <<"PROPERTY", "INSURANCE", "Property", "insurance", "covers", "damage",
         "to", "property", "from", "various", "perils", ".">>,
       <<"This", "includes", "coverage", "for", "homes", ",", "businesses", ",",
         "and", "other", "structures", ".">> >>

SentencePool ==
    { <<"AUTO", "INSURANCE", "protects", ".">>,
      <<"Life", "insurance", "pays", ".">>,
      <<"It", "covers", "damage", ".">>,
      <<"HEALTH", "insurance", "and", "property", "INSURANCE", ".">>,
      <<"insurance", ".">> }

RECURSIVE SeqsUpTo(_, _)
SeqsUpTo(S, n) ==
    IF n = 0 THEN {<<>>}
    ELSE LET prev == SeqsUpTo(S, n - 1)
         IN  prev \cup {Append(p, x) : p \in {q \in prev : Len(q) = n - 1}, x \in S}

Texts == {SampleText} \cup (SeqsUpTo(SentencePool, MaxSentences) \ {<<>>})

Configs ==
    { [size |-> DemoChunkSize, overlap |-> DemoChunkOverlap],
      [size |-> DefaultChunkSize, overlap |-> DefaultChunkOverlap],
      [size |-> SmallChunkSize, overlap |-> 0],
      [size |-> SmallChunkSize, overlap |-> SmallOverlap] }

\* every sentence fits in a chunk (sub-sentence splitting is not modelled)
Fits(t, c) == \A i \in 1..Len(t) : Len(t[i]) <= c.size

-----------------------------------------------------------------------------
(* split_by_topics, one action per step *)

\* the splitter toolkit is not running
SplitIdle ==
    /\ spc = "idle"
    /\ text = <<>>
    /\ chunk_size = DefaultChunkSize
    /\ chunk_overlap = DefaultChunkOverlap
    /\ base_nodes = <<>>
    /\ idx = 0
    /\ current_topic = "General"
    /\ topics = <<>>
    /\ appendedTo = <<>>
    /\ topic_chunks = <<>>

InitSplitVars ==
    /\ spc = "split"
    /\ \E t \in Texts, c \in Configs :
          /\ Fits(t, c)
          /\ text = t
          /\ chunk_size = c.size
          /\ chunk_overlap = c.overlap
    /\ base_nodes = <<>>
    /\ idx = 0
    /\ current_topic = "General"
    /\ topics = <<>>
    /\ appendedTo = <<>>
    /\ topic_chunks = <<>>

\* doc = Document(text); base_nodes = sentence_parser.get_nodes_from_documents
\* topics = {}; current_topic = "General"
SplitBaseNodes ==
    /\ spc = "split"
    /\ base_nodes' = SentenceSplit(text, chunk_size, chunk_overlap)
    /\ topics' = <<>>
    /\ current_topic' = "General"
    /\ idx' = 0
    /\ spc' = "loop"
    /\ UNCHANGED <<text, chunk_size, chunk_overlap, appendedTo, topic_chunks>>
    /\ UNCHANGED <<analyzeVars, pipeVars, storeVars, dashVars>>

\* one iteration of `for node in base_nodes`
TopicLoopStep ==
    /\ spc = "loop"
    /\ idx < Len(base_nodes)
    /\ LET t  == base_nodes[idx + 1]
           ct == TopicAfter(current_topic, t)
       IN  /\ current_topic' = ct
           /\ topics' = DictAppend(topics, ct, t)
           /\ appendedTo' = Append(appendedTo, ct)
    /\ idx' = idx + 1
    /\ UNCHANGED <<spc, text, chunk_size, chunk_overlap, base_nodes, topic_chunks>>
    /\ UNCHANGED <<analyzeVars, pipeVars, storeVars, dashVars>>

\* the loop is exhausted: format and return
FormatResults ==
    /\ spc = "loop"
    /\ idx = Len(base_nodes)
    /\ topic_chunks' = FormatTopics(topics)
    /\ spc' = "done"
    /\ UNCHANGED <<text, chunk_size, chunk_overlap, base_nodes, idx,
                   current_topic, topics, appendedTo>>
    /\ UNCHANGED <<analyzeVars, pipeVars, storeVars, dashVars>>

-----------------------------------------------------------------------------
(* analyze_chunks: a chunk is a sequence of characters *)

\* Python's s[:n]
Slice(c, n) == SubSeq(c, 1, IF n < Len(c) THEN n ELSE Len(c))

Ellipsis == <<".", ".", ".">>

\* str.isspace for the characters of the model
IsSpace(ch) == ch = " "

\* len(chunk.split('.')): one more than the number of '.' characters
SentenceCount(c) == Cardinality({i \in 1..Len(c) : c[i] = "."}) + 1

\* len(chunk.split()): the maximal runs of non-whitespace characters
WordCount(c) ==
    Cardinality({i \in 1..Len(c) :
                    /\ ~IsSpace(c[i])
                    /\ (i = 1 \/ IsSpace(c[i - 1]))})

\* a plausible slip: the suffix is added only when the chunk was cut
PreviewOnlyWhenCut(c) ==
    IF Len(c) > PreviewLen THEN Slice(c, PreviewLen) \o Ellipsis ELSE c

\* chunk[:100] + "..."
Preview(c) == Slice(c, PreviewLen) \o Ellipsis

\* the record appended for the chunk at 0-based position i
AnalysisRecord(i, c) ==
    [chunk_id |-> i,
     length |-> Len(c),
     sentences |-> SentenceCount(c),
     words |-> WordCount(c),
     preview |-> Preview(c)]

\* characters of the input chunks
Alphabet == <<"a", " ", ".">>

\* the chunk of n characters whose i-th character is picked by stride k
PatternChunk(k, n) == [i \in 1..n |-> Alphabet[((i * k) % Len(Alphabet)) + 1]]

\* lengths below, at and above the preview cut
ChunkLens ==
    {0, ShortLen, PreviewLen - 1, PreviewLen, PreviewLen + 1, PreviewLen + ExtraLen}

ChunkPool == {PatternChunk(k, n) : k \in {1, 2}, n \in ChunkLens}

AnalyzeIdle ==
    /\ apc = "idle"
    /\ achunks = <<>>
    /\ analysis = <<>>

\* analyze_chunks(chunks) is entered: analysis = []
InitAnalyzeVars ==
    /\ apc = "loop"
    /\ achunks \in SeqsUpTo(ChunkPool, MaxChunks)
    /\ analysis = <<>>

\* one iteration of `for i, chunk in enumerate(chunks)`
AnalyzeStep ==
    /\ apc = "loop"
    /\ Len(analysis) < Len(achunks)
    /\ LET i == Len(analysis)
       IN  analysis' = Append(analysis, AnalysisRecord(i, achunks[i + 1]))
    /\ UNCHANGED <<apc, achunks>>
    /\ UNCHANGED <<splitVars, pipeVars, storeVars, dashVars>>

\* return pd.DataFrame(analysis): one row per record, in order
AnalyzeReturn ==
    /\ apc = "loop"
    /\ Len(analysis) = Len(achunks)
    /\ apc' = "done"
    /\ UNCHANGED <<achunks, analysis>>
    /\ UNCHANGED <<splitVars, pipeVars, storeVars, dashVars>>

-----------------------------------------------------------------------------
(* The knowledge base: what resolve() can return and the stores can hold *)

NoGraph == [entities |-> {}, rels |-> {}, communities |-> <<>>, built |-> FALSE]

Graphs ==
    { [entities |-> {"term life", "auto liability"},
       rels |-> {<<"term life", "auto liability">>},
       communities |-> <<"c1">>,
       built |-> TRUE],
      [entities |-> {"term life", "auto liability"},
       rels |-> {},
       communities |-> <<"c1", "c2">>,
       built |-> TRUE] }

-----------------------------------------------------------------------------
(* indexing_pipeline.py *)

StageOrder == <<"load_data", "extract", "resolve", "summarizer.run", "insert_data">>

StageIndex(stage) == CHOOSE i \in 1..Len(StageOrder) : StageOrder[i] = stage

\* the statement that follows a stage in run()
Successor(stage) ==
    IF StageIndex(stage) = Len(StageOrder) THEN "done"
    ELSE StageOrder[StageIndex(stage) + 1]

\* a plausible slip: a stage's exception is swallowed and run() goes on
AfterStageSwallow(stage, ok) == Successor(stage)

\* where run() is after calling a stage: an exception propagates out of run()
AfterStage(stage, ok) == IF ok THEN Successor(stage) ELSE "failed"

PipelineIdle ==
    /\ ppc = "idle"
    /\ pStarted = <<>>
    /\ pCompleted = <<>>
    /\ pGraph = NoGraph

\* python indexing_pipeline.py is launched
PipelineStart ==
    /\ ppc \in {"idle", "done", "failed"}
    /\ ppc' = "construct"
    /\ pStarted' = <<>>
    /\ pCompleted' = <<>>
    /\ pGraph' = NoGraph
    /\ UNCHANGED <<splitVars, analyzeVars, storeVars, dashVars>>

\* the five constructors at the top of run()
PipelineConstruct ==
    /\ ppc = "construct"
    /\ \E ok \in BOOLEAN : ppc' = IF ok THEN StageOrder[1] ELSE "failed"
    /\ UNCHANGED <<pStarted, pCompleted, pGraph, splitVars, analyzeVars, storeVars, dashVars>>

\* the bookkeeping common to the five stage calls
StageCall(stage, ok) ==
    /\ ppc = stage
    /\ pStarted' = Append(pStarted, stage)
    /\ pCompleted' = IF ok THEN Append(pCompleted, stage) ELSE pCompleted
    /\ ppc' = AfterStage(stage, ok)

\* nodes = text_splitter.load_data()
PipelineLoadData ==
    /\ \E ok \in BOOLEAN : StageCall("load_data", ok)
    /\ UNCHANGED <<pGraph, splitVars, analyzeVars, storeVars, dashVars>>

\* nodes = graph_extractor.extract(nodes)
PipelineExtract ==
    /\ \E ok \in BOOLEAN : StageCall("extract", ok)
    /\ UNCHANGED <<pGraph, splitVars, analyzeVars, storeVars, dashVars>>

\* entities, relationships = graph_resolver.resolve(nodes)
PipelineResolve ==
    /\ \E ok \in BOOLEAN :
          /\ StageCall("resolve", ok)
          /\ IF ok THEN \E g \in Graphs : pGraph' = g ELSE pGraph' = pGraph
    /\ UNCHANGED <<splitVars, analyzeVars, storeVars, dashVars>>

\* summarizer.run(entities, relationships): persists the community state
PipelineSummarize ==
    /\ \E ok \in BOOLEAN :
          /\ StageCall("summarizer.run", ok)
          /\ communityStore' = IF ok THEN pGraph ELSE communityStore
    /\ UNCHANGED <<pGraph, indexStore, splitVars, analyzeVars, dashVars>>

\* data_indexer.insert_data(entities, relationships)
PipelineInsertData ==
    /\ \E ok \in BOOLEAN :
          /\ StageCall("insert_data", ok)
          /\ indexStore' = IF ok THEN pGraph ELSE indexStore
    /\ UNCHANGED <<pGraph, communityStore, splitVars, analyzeVars, dashVars>>

PipelineNext ==
    \/ PipelineStart
    \/ PipelineConstruct
    \/ PipelineLoadData
    \/ PipelineExtract
    \/ PipelineResolve
    \/ PipelineSummarize
    \/ PipelineInsertData

-----------------------------------------------------------------------------
(* Backend components the dashboards call (generation.py, graph_communities.py,
   data_index.py): retrieval may return any bounded list over what is stored *)

Min(a, b) == IF a < b THEN a ELSE b

NoEvidence == [query |-> "", entities |-> <<>>, summaries |-> <<>>, valid |-> FALSE]

\* entity retrieval of the DataIndexer for a question
RetrieveEntities(store) == SeqsUpTo(store.entities, MaxRetrieved)

\* summary retrieval of the CommunitySummarizer, from its loaded state
RetrieveSummaries(ld) ==
    {SubSeq(ld.communities, 1, n) : n \in 0..Min(Len(ld.communities), MaxSummaries)}

\* CommunitySummarizer.load(): MissingData when nothing was persisted
LoadOutcomes(store) == IF store.built THEN {TRUE, FALSE} ELSE {FALSE}

\* Generator.get_entities(q): the entity set generate(q) used
GetEntitiesResults(used, q, store) ==
    IF used.valid /\ used.query = q THEN {used.entities} ELSE RetrieveEntities(store)

\* Generator.get_community_summaries(q): the summary set generate(q) used
GetSummariesResults(used, q, ld) ==
    IF used.valid /\ used.query = q THEN {used.summaries} ELSE RetrieveSummaries(ld)

-----------------------------------------------------------------------------
(* app.py / app2.py *)

example_questions ==
    <<"What are the different types of auto insurance coverage?",
      "How does workers compensation insurance work?",
      "What is the difference between term and whole life insurance?",
      "Insurance policy requirements by state?",
      "What is the process for handling insurance claims?">>

\* what a user may type into the text input
TypedInputs == {"", "What is term life insurance?"}

Call(op, arg) == [op |-> op, arg |-> arg]

NothingRendered == [answer |-> FALSE, network |-> FALSE, sources |-> <<>>]

\* a plausible slip: the Generator is wired before the community state is loaded
AppInitCallsEager(ok) ==
    <<Call("CommunitySummarizer", ""), Call("DataIndexer", ""),
      Call("Generator", ""), Call("load", "")>>
    \o (IF ok THEN <<Call("load returned", "")>> ELSE <<>>)

\* a plausible slip: the dashboard rebuilds the communities instead of loading
AppInitCallsRebuild(ok) ==
    <<Call("CommunitySummarizer", ""), Call("DataIndexer", ""), Call("run", "")>>
    \o (IF ok THEN <<Call("load returned", ""), Call("Generator", "")>> ELSE <<>>)

\* the backend calls of __init__, load() returning (ok) or raising
AppInitCalls(ok) ==
    <<Call("CommunitySummarizer", ""), Call("DataIndexer", ""), Call("load", "")>>
    \o (IF ok THEN <<Call("load returned", ""), Call("Generator", "")>> ELSE <<>>)

\* a plausible slip: the button handler does not store the question
ButtonAssignDropped(sq, q) == sq

\* `st.session_state.query = q`
ButtonAssign(sq, q) == q

\* `for q in example_questions: if st.button(q): ...`, from button k on;
\* st.button is true only for the button clicked for this run
RECURSIVE SidebarLoop(_, _, _)
SidebarLoop(k, click, sq) ==
    IF k > Len(example_questions) THEN sq
    ELSE SidebarLoop(k + 1, click,
                     IF click = k THEN ButtonAssign(sq, example_questions[k]) ELSE sq)

\* a plausible slip: the guard is dropped
QueryTruthyAlways(q) == TRUE

\* `if query:`
QueryTruthy(q) == q # ""

\* a plausible slip: the evidence is fetched before the answer is generated
MainCallOrderEvidenceFirst == <<"get_entities", "get_community_summaries", "generate">>

\* the three Generator calls of render_main, in statement order
MainCallOrder == <<"generate", "get_entities", "get_community_summaries">>

AfterCall(op) ==
    LET i == CHOOSE k \in 1..Len(MainCallOrder) : MainCallOrder[k] = op
    IN  IF i = Len(MainCallOrder) THEN "show" ELSE MainCallOrder[i + 1]

\* a plausible slip: the inner loop starts at i instead of i+1
RECURSIVE BuildEdgesFromSelf(_, _)
BuildEdgesFromSelf(ents, i) ==
    IF i > Len(ents) THEN <<>>
    ELSE [j \in 1..(Len(ents) - i + 1) |->
             [source |-> ents[i], target |-> ents[i + j - 1]]]
         \o BuildEdgesFromSelf(ents, i + 1)

\* `for i, e1 in enumerate(entities): for e2 in entities[i+1:]: edges.append(...)`
\* from outer position i on (1-based)
RECURSIVE BuildEdges(_, _)
BuildEdges(ents, i) ==
    IF i > Len(ents) THEN <<>>
    ELSE [j \in 1..(Len(ents) - i) |->
             [source |-> ents[i], target |-> ents[i + j]]]
         \o BuildEdges(ents, i + 1)

\* `if entities:`
PlotGuard(ents) == ents # <<>>

\* plot_entity_network raises: app2.py hands an edge frame without columns to
\* nx.from_pandas_edgelist (KeyError); app.py guards with `if not edges.empty`
PlotRaises(v, es) == v = "v2" /\ es = <<>>

\* the chart is drawn
PlotDraws(v, es) == es # <<>>

LocalsReset ==
    /\ query' = ""
    /\ calls' = <<>>
    /\ loaded' = NoGraph
    /\ genUsed' = NoEvidence
    /\ response' = ""
    /\ entities' = <<>>
    /\ summaries' = <<>>
    /\ edges' = <<>>
    /\ rendered' = NothingRendered

DashOff ==
    /\ variant = "v1"
    /\ dpc = "off"
    /\ session_query = ""
    /\ clicked = 0
    /\ query = ""
    /\ calls = <<>>
    /\ loaded = NoGraph
    /\ genUsed = NoEvidence
    /\ response = ""
    /\ entities = <<>>
    /\ summaries = <<>>
    /\ edges = <<>>
    /\ rendered = NothingRendered

\* streamlit run app.py / app2.py: the first script run of a fresh session
InitDash ==
    /\ variant \in {"v1", "v2"}
    /\ dpc = "init"
    /\ session_query = ""
    /\ clicked = 0
    /\ query = ""
    /\ calls = <<>>
    /\ loaded = NoGraph
    /\ genUsed = NoEvidence
    /\ response = ""
    /\ entities = <<>>
    /\ summaries = <<>>
    /\ edges = <<>>
    /\ rendered = NothingRendered

\* the user submits the text input: Streamlit stores the widget value under
\* key "query" and reruns the script
UserTypes ==
    /\ dpc \in {"done", "error"}
    /\ \E t \in TypedInputs : session_query' = t
    /\ clicked' = 0
    /\ dpc' = "init"
    /\ LocalsReset
    /\ UNCHANGED <<variant, splitVars, analyzeVars, pipeVars, storeVars>>

\* the user clicks an example button: Streamlit reruns the script with that
\* button true
UserClicks ==
    /\ dpc \in {"done", "error"}
    /\ \E k \in 1..Len(example_questions) : clicked' = k
    /\ dpc' = "init"
    /\ LocalsReset
    /\ UNCHANGED <<variant, session_query, splitVars, analyzeVars, pipeVars, storeVars>>

\* app = InsuranceRAGApp()
AppInit ==
    /\ dpc = "init"
    /\ \E ok \in LoadOutcomes(communityStore) :
          /\ calls' = AppInitCalls(ok)
          /\ loaded' = IF ok THEN communityStore ELSE loaded
          /\ dpc' = IF ok THEN "sidebar" ELSE "error"
    /\ UNCHANGED <<variant, session_query, clicked, query, genUsed, response,
                   entities, summaries, edges, rendered>>
    /\ UNCHANGED <<splitVars, analyzeVars, pipeVars, storeVars>>

\* self.render_sidebar()
RenderSidebar ==
    /\ dpc = "sidebar"
    /\ session_query' = SidebarLoop(1, clicked, session_query)
    /\ dpc' = "main"
    /\ UNCHANGED <<variant, clicked, query, calls, loaded, genUsed, response,
                   entities, summaries, edges, rendered>>
    /\ UNCHANGED <<splitVars, analyzeVars, pipeVars, storeVars>>

\* render_main up to `if query:`; st.text_input(key="query") returns the
\* session value
RenderMainInput ==
    /\ dpc = "main"
    /\ query' = session_query
    /\ dpc' = IF QueryTruthy(session_query) THEN MainCallOrder[1] ELSE "css"
    /\ UNCHANGED <<variant, session_query, clicked, calls, loaded, genUsed,
                   response, entities, summaries, edges, rendered>>
    /\ UNCHANGED <<splitVars, analyzeVars, pipeVars, storeVars>>

\* response = self.generator.generate(query)
Generate ==
    /\ dpc = "generate"
    /\ \E es \in RetrieveEntities(indexStore), ss \in RetrieveSummaries(loaded) :
          genUsed' = [query |-> query, entities |-> es, summaries |-> ss,
                      valid |-> TRUE]
    /\ response' = "answer"
    /\ calls' = Append(calls, Call("generate", query))
    /\ dpc' = AfterCall("generate")
    /\ UNCHANGED <<variant, session_query, clicked, query, loaded, entities,
                   summaries, edges, rendered>>
    /\ UNCHANGED <<splitVars, analyzeVars, pipeVars, storeVars>>

\* entities = self.generator.get_entities(query)
GetEntities ==
    /\ dpc = "get_entities"
    /\ \E es \in GetEntitiesResults(genUsed, query, indexStore) : entities' = es
    /\ calls' = Append(calls, Call("get_entities", query))
    /\ dpc' = AfterCall("get_entities")
    /\ UNCHANGED <<variant, session_query, clicked, query, loaded, genUsed,
                   response, summaries, edges, rendered>>
    /\ UNCHANGED <<splitVars, analyzeVars, pipeVars, storeVars>>

\* summaries = self.generator.get_community_summaries(query)
GetCommunitySummaries ==
    /\ dpc = "get_community_summaries"
    /\ \E ss \in GetSummariesResults(genUsed, query, loaded) : summaries' = ss
    /\ calls' = Append(calls, Call("get_community_summaries", query))
    /\ dpc' = AfterCall("get_community_summaries")
    /\ UNCHANGED <<variant, session_query, clicked, query, loaded, genUsed,
                   response, entities, edges, rendered>>
    /\ UNCHANGED <<splitVars, analyzeVars, pipeVars, storeVars>>

\* the result layout of render_main: the answer, then the network (when there
\* are entities), then the sources
ShowResults ==
    /\ dpc = "show"
    /\ LET plot == PlotGuard(entities)
           es   == IF plot THEN BuildEdges(entities, 1) ELSE <<>>
           boom == plot /\ PlotRaises(variant, es)
       IN  /\ edges' = es
           /\ calls' = IF plot THEN Append(calls, Call("plot_entity_network", ""))
                       ELSE calls
           /\ rendered' = [answer |-> TRUE,
                           network |-> plot /\ ~boom /\ PlotDraws(variant, es),
                           sources |-> IF boom THEN <<>> ELSE summaries]
           /\ dpc' = IF boom THEN "error" ELSE "css"
    /\ UNCHANGED <<variant, session_query, clicked, query, loaded, genUsed,
                   response, entities, summaries>>
    /\ UNCHANGED <<splitVars, analyzeVars, pipeVars, storeVars>>

\* the custom CSS at the end of run()
AddCustomCss ==
    /\ dpc = "css"
    /\ dpc' = "done"
    /\ UNCHANGED <<variant, session_query, clicked, query, calls, loaded, genUsed,
                   response, entities, summaries, edges, rendered>>
    /\ UNCHANGED <<splitVars, analyzeVars, pipeVars, storeVars>>

DashboardNext ==
    \/ UserTypes
    \/ UserClicks
    \/ AppInit
    \/ RenderSidebar
    \/ RenderMainInput
    \/ Generate
    \/ GetEntities
    \/ GetCommunitySummaries
    \/ ShowResults
    \/ AddCustomCss

-----------------------------------------------------------------------------
(* Specifications *)

\* the pipeline and a dashboard, over stores that start empty
Init ==
    /\ SplitIdle
    /\ AnalyzeIdle
    /\ PipelineIdle
    /\ communityStore = NoGraph
    /\ indexStore = NoGraph
    /\ InitDash

Next == PipelineNext \/ DashboardNext

Spec == Init /\ [][Next]_vars

\* split_by_topics alone, over the bounded texts and splitter configurations
InitSplit ==
    /\ InitSplitVars
    /\ AnalyzeIdle
    /\ PipelineIdle
    /\ communityStore = NoGraph
    /\ indexStore = NoGraph
    /\ DashOff

NextSplit == SplitBaseNodes \/ TopicLoopStep \/ FormatResults

SpecSplit == InitSplit /\ [][NextSplit]_vars

\* analyze_chunks alone, over the bounded chunk lists
InitAnalyze ==
    /\ InitAnalyzeVars
    /\ SplitIdle
    /\ PipelineIdle
    /\ communityStore = NoGraph
    /\ indexStore = NoGraph
    /\ DashOff

NextAnalyze == AnalyzeStep \/ AnalyzeReturn

SpecAnalyze == InitAnalyze /\ [][NextAnalyze]_vars

-----------------------------------------------------------------------------
(* Properties *)

IsPrefix(a, b) == Len(a) <= Len(b) /\ SubSeq(b, 1, Len(a)) = a

OpsOf(cs) == {cs[i].op : i \in 1..Len(cs)}

GeneratorOps == {"generate", "get_entities", "get_community_summaries"}

\* C1: run() calls load_data, extract, resolve, summarizer.run, insert_data in
\* that order, each at most once; a stage is called only when every earlier
\* stage has returned normally, and a stage that raises ends the run, so
\* insert_data is never called when summarizer.run failed.
C1_StagesInOrder ==
    /\ IsPrefix(pStarted, StageOrder)
    /\ IsPrefix(pCompleted, pStarted)
    /\ Len(pStarted) <= Len(pCompleted) + 1
    /\ (Len(pStarted) > Len(pCompleted)) => ppc = "failed"
    /\ ("insert_data" \in {pStarted[i] : i \in 1..Len(pStarted)})
          => ("summarizer.run" \in {pCompleted[i] : i \in 1..Len(pCompleted)})
    /\ (ppc = "done") => pCompleted = StageOrder

\* summarizer.run raised after three good stages: insert_data was not called
C1_Witness ==
    /\ ppc = "failed"
    /\ pStarted = SubSeq(StageOrder, 1, 4)
    /\ pCompleted = SubSeq(StageOrder, 1, 3)

HasMarker(t) == \E k \in 1..Len(topic_indicators) : IndicatorIn(topic_indicators[k], t)

\* the topic a chunk with a marker sets: the last matching indicator of the list
MarkerOf(t) ==
    LET k == CHOOSE m \in 1..Len(topic_indicators) :
                 /\ IndicatorIn(topic_indicators[m], t)
                 /\ \A n \in (m + 1)..Len(topic_indicators) :
                        ~IndicatorIn(topic_indicators[n], t)
    IN  topic_indicators[k]

\* the topic carried to chunk i
CarriedTopic(i) ==
    IF \E j \in 1..i : HasMarker(base_nodes[j])
        THEN LET j == CHOOSE m \in 1..i :
                          /\ HasMarker(base_nodes[m])
                          /\ \A n \in (m + 1)..i : ~HasMarker(base_nodes[n])
             IN  MarkerOf(base_nodes[j])
        ELSE "General"

\* the chunks among the first n that were appended under key k, in order
RECURSIVE ChunksUnder(_, _)
ChunksUnder(k, n) ==
    IF n = 0 THEN <<>>
    ELSE ChunksUnder(k, n - 1)
         \o (IF appendedTo[n] = k THEN <<base_nodes[n]>> ELSE <<>>)

\* C2: every processed chunk i sits in the bucket of the topic set by the most
\* recent chunk j <= i that holds a marker, and in General only when no chunk
\* j <= i holds one; a chunk without a marker leaves the current topic alone.
C2_CarryForward ==
    (spc \in {"loop", "done"}) =>
        /\ Len(appendedTo) = idx
        /\ \A i \in 1..idx : appendedTo[i] = CarriedTopic(i)
        /\ \A b \in 1..Len(topics) :
               topics[b].chunks = ChunksUnder(topics[b].topic, idx)
        /\ \A i \in 1..idx : KeyIndex(topics, appendedTo[i]) # 0

\* a chunk without a marker, after a chunk with one, went to that topic
C2_Witness ==
    /\ spc = "done"
    /\ \E i \in 2..idx :
          /\ ~HasMarker(base_nodes[i])
          /\ HasMarker(base_nodes[i - 1])
          /\ appendedTo[i] = MarkerOf(base_nodes[i - 1])
          /\ appendedTo[i] # "General"

IsDemoRun ==
    /\ text = SampleText
    /\ chunk_size = DemoChunkSize
    /\ chunk_overlap = DemoChunkOverlap

\* C3: on the demonstration text with the demonstration configuration,
\* split_by_topics returns exactly the three buckets AUTO INSURANCE, LIFE
\* INSURANCE, PROPERTY INSURANCE, in that order, each with chunk_count >= 1,
\* and none labelled General.
C3_DemoThreeBuckets ==
    (spc = "done" /\ IsDemoRun) =>
        /\ Len(topic_chunks) = 3
        /\ topic_chunks[1].topic = "AUTO INSURANCE"
        /\ topic_chunks[2].topic = "LIFE INSURANCE"
        /\ topic_chunks[3].topic = "PROPERTY INSURANCE"
        /\ \A i \in 1..3 : topic_chunks[i].chunk_count >= 1
        /\ \A i \in 1..3 : topic_chunks[i].topic # "General"

PlotCalled == "plot_entity_network" \in OpsOf(calls)

\* position of the pair (i, j), i < j, in the order the loops visit the pairs
PairIndex(i, j, n) == (i - 1) * n - ((i - 1) * i) \div 2 + (j - i)

C6_LoadFirst ==
    /\ \A i \in 1..Len(calls) :
          (calls[i].op \in GeneratorOps \cup {"Generator"}) =>
              /\ \E j \in 1..(i - 1) : calls[j].op = "load returned"
              /\ loaded.built
    /\ ("load returned" \notin OpsOf(calls)) =>
          /\ OpsOf(calls) \cap GeneratorOps = {}
          /\ ~rendered.answer

\* a submitted question is not served because load() raised
C6_Witness ==
    /\ dpc = "error"
    /\ session_query # ""
    /\ "load" \in OpsOf(calls)
    /\ "load returned" \notin OpsOf(calls)

\* C7: a script run whose query value is empty calls none of generate,
\* get_entities, get_community_summaries, plot_entity_network and renders no
\* answer, network or sources.
C7_EmptyQueryNoAction ==
    (dpc \in {"css", "done"} /\ query = "") =>
        /\ OpsOf(calls) \cap (GeneratorOps \cup {"plot_entity_network"}) = {}
        /\ rendered = NothingRendered
        /\ edges = <<>>

\* a script run with an empty query has finished, the backend being loaded
C7_Witness ==
    /\ dpc = "done"
    /\ query = ""
    /\ session_query = ""
    /\ loaded.built

\* render_main went past the three Generator calls
ResultsPass == dpc \in {"css", "done", "error"} /\ query # ""

\* C8: for a non-empty query, zero retrieved entities means
\* plot_entity_network is not called and no network is rendered, zero
\* retrieved summaries means zero source entries; in both cases the answer
\* is rendered and the script run ends without an error.
C8_RetrievalMissRenders ==
    /\ (ResultsPass /\ entities = <<>>) =>
          /\ ~PlotCalled
          /\ ~rendered.network
          /\ rendered.answer
          /\ dpc # "error"
    /\ (ResultsPass /\ summaries = <<>>) =>
          /\ rendered.sources = <<>>
          /\ rendered.answer
          /\ dpc # "error"

\* C9: no dashboard step changes the persisted community state or the
\* indexed graph, and no dashboard calls CommunitySummarizer.run or
\* DataIndexer.insert_data; only the pipeline's summarizer.run and
\* insert_data stages write the stores.
C9_DashboardsReadOnly ==
    /\ [][(storeVars' # storeVars) =>
             /\ ppc \in {"summarizer.run", "insert_data"}
             /\ UNCHANGED dashVars]_vars
    /\ [](OpsOf(calls) \cap {"run", "insert_data"} = {})

\* a dashboard has answered a query over stores the pipeline has written
C9_Witness ==
    /\ dpc = "done"
    /\ rendered.answer
    /\ ppc = "done"
    /\ communityStore.built
    /\ indexStore.built

\* the script run is past render_sidebar
PastSidebar ==
    \/ dpc \in {"main", "show", "css", "done"} \cup GeneratorOps
    \/ dpc = "error" /\ "load returned" \in OpsOf(calls)

\* C10: a click on example question k sets the session's query to that
\* question, and the same script run calls generate, get_entities and
\* get_community_summaries for it.
C10_ExampleClickRuns ==
    (clicked # 0) =>
        LET q == example_questions[clicked]
        IN  /\ PastSidebar => session_query = q
            /\ (dpc \in {"show", "css", "done"} \/ (dpc = "error" /\ PastSidebar)) =>
                   /\ query = q
                   /\ SelectSeq(calls, LAMBDA c : c.op \in GeneratorOps) =
                          <<Call("generate", q), Call("get_entities", q),
                            Call("get_community_summaries", q)>>

\* the third example was clicked over a typed question and has been answered
C10_Witness ==
    /\ clicked = 3
    /\ dpc = "done"
    /\ query = example_questions[3]
    /\ rendered.answer


\* C11: analyze_chunks returns one record per chunk, in input order, with
\* chunk_id the chunk's zero-based position and length its character count;
\* the preview of a chunk shorter than 100 characters is the whole chunk
\* followed by "...", that of a longer chunk its first 100 characters
\* followed by "...".
C11_AnalysisRecords ==
    /\ Len(analysis) <= Len(achunks)
    /\ (apc = "done") => Len(analysis) = Len(achunks)
    /\ \A i \in 1..Len(analysis) :
          LET c == achunks[i]
              r == analysis[i]
          IN  /\ r.chunk_id = i - 1
              /\ r.length = Len(c)
              /\ (Len(c) < 100) => r.preview = c \o <<".", ".", ".">>
              /\ (Len(c) > 100) =>
                     /\ Len(r.preview) = 103
                     /\ SubSeq(r.preview, 1, 100) = SubSeq(c, 1, 100)
                     /\ SubSeq(r.preview, 101, 103) = <<".", ".", ".">>

\* a returned frame with a short chunk first and a long chunk second
C11_Witness ==
    /\ apc = "done"
    /\ Len(analysis) = 2
    /\ Len(achunks[1]) \in 1..99
    /\ Len(achunks[2]) > 100
    /\ analysis[2].chunk_id = 1
    /\ Len(analysis[1].preview) = Len(achunks[1]) + 3


RECURSIVE SumCounts(_)
SumCounts(tc) == IF tc = <<>> THEN 0 ELSE Head(tc).chunk_count + SumCounts(Tail(tc))

\* the first chunk appended while topic k was current
FirstCurrentAt(k) ==
    CHOOSE i \in 1..Len(appendedTo) :
        /\ appendedTo[i] = k
        /\ \A j \in 1..(i - 1) : appendedTo[j] # k

====
